---- MODULE Spec2Model ----
(***************************************************************************)
(* A model of doc2pdf.py: the MHTML walk (_extract_html), the HTML         *)
(* normaliser (_clean_html), the resource inliner, the render step         *)
(* (html_to_pdf), the per-file job (convert_mhtml_to_pdf) and the batch    *)
(* driver (main).                                                          *)
(*                                                                         *)
(* A text is a sequence of lexemes: single characters ("=", "3", "D",      *)
(* a newline, a quote, ...) and, where nothing matches inside them,        *)
(* indivisible runs such as a tag "<div>" or the word "image".             *)
(* str.replace is modelled on these sequences as Python does it: one       *)
(* pass, left to right, over non-overlapping matches.                      *)
(***************************************************************************)
EXTENDS Integers, Sequences, FiniteSets, TLC

VARIABLES
    c_in,          \* _clean_html: the argument html_content
    c_text,        \* _clean_html: the local html_content as it is rewritten
    c_pc,          \* _clean_html: position
    archive,       \* _extract_html: the parts message.walk() yields, in order
    p_i,           \* _extract_html: number of parts walked so far
    html_content,  \* _extract_html: local html_content
    images,        \* _extract_html: local images (dict in insertion order)
    p_j,           \* _extract_html: number of images.items() pairs inlined
    p_pc,          \* _extract_html: position
    inputs,        \* main: per job, the archive read from its input file
    outs,          \* main: per job, the output path (the input's stem)
    jobs,          \* per job: position and locals of convert_mhtml_to_pdf
    pdf,           \* file system: per stem, the content of <stem>.pdf
    tmp,           \* file system: per stem, the content of <stem>.html
    m_pc,          \* main: position
    summary,       \* main: whether "Some files failed to convert" was printed
    exit_status,   \* the exit status of the process, once it has ended
    run            \* number of times the program has been started

vars == <<c_in, c_text, c_pc, archive, p_i, html_content, images, p_j, p_pc,
          inputs, outs, jobs, pdf, tmp, m_pc, summary, exit_status, run>>

cleanVars == <<c_in, c_text, c_pc>>
parseVars == <<archive, p_i, html_content, images, p_j, p_pc>>
jobVars   == <<inputs, outs, jobs, pdf, tmp, m_pc, summary, exit_status, run>>

----------------------------------------------------------------------------
(* Bounds *)

MaxLen == 5        \* longest text given to _clean_html on its own
MaxParts == 3      \* most parts in an archive
NumJobs == 2       \* files found in the input directory
MaxRuns == 2       \* times the program is started on the same paths

----------------------------------------------------------------------------
(* Python values *)

None == [kind |-> "None", val |-> <<>>]
Str(s) == [kind |-> "str", val |-> s]
Raised(e) == [kind |-> "raise", val |-> <<e>>]

\* bool(x) of an optional str: None and '' are falsy
Truthy(x) == x.kind = "str" /\ x.val # <<>>

\* the process has not ended yet
NotExited == -1

SeqsUpTo(A, n) == UNION {[1..k -> A] : k \in 0..n}

\* str.replace(old, new), old non-empty
RECURSIVE Replace(_, _, _)
ReplaceFirstOnly(s, old, new) ==
    IF Len(s) < Len(old) THEN s
    ELSE IF SubSeq(s, 1, Len(old)) = old
         THEN new \o SubSeq(s, Len(old) + 1, Len(s))
         ELSE <<Head(s)>> \o Replace(Tail(s), old, new)
Replace(s, old, new) ==
    IF Len(s) < Len(old) THEN s
    ELSE IF SubSeq(s, 1, Len(old)) = old
         THEN new \o Replace(SubSeq(s, Len(old) + 1, Len(s)), old, new)
         ELSE <<Head(s)>> \o Replace(Tail(s), old, new)

\* old in s
Contains(s, old) ==
    \E i \in 1..(Len(s) - Len(old) + 1) : SubSeq(s, i, i + Len(old) - 1) = old

----------------------------------------------------------------------------
(* _clean_html *)

Esc3D == <<"=", "3", "D">>
Esc2D == <<"=", "2", "D">>
SoftBreak == <<"=", "\n">>

\* line 56: if not html_content
CheckFailsNoneOnly(h) == h.kind = "None"
CheckFails(h) == ~Truthy(h)

Sub3D(s) == Replace(s, Esc3D, <<"=">>)
Sub2D(s) == Replace(s, Esc2D, <<" ">>)
SubSoft(s) == Replace(s, SoftBreak, <<>>)

\* lines 60-62
Substitutions(s) == SubSoft(Sub2D(Sub3D(s)))

OpenTags == {"<xml>", "<o:p>"}
CloseOf(t) == IF t = "<xml>" THEN "</xml>" ELSE "</o:p>"

\* The rest of s after the element opened just before it: past the matching
\* close tag, or nothing when the element is never closed.
RECURSIVE SkipElement(_, _, _)
SkipElement(s, open, depth) ==
    IF s = <<>> THEN <<>>
    ELSE IF Head(s) = open THEN SkipElement(Tail(s), open, depth + 1)
    ELSE IF Head(s) = CloseOf(open)
         THEN IF depth = 0 THEN Tail(s)
              ELSE SkipElement(Tail(s), open, depth - 1)
    ELSE SkipElement(Tail(s), open, depth)

\* lines 68-69: every xml and o:p element is decomposed, with what it holds
RECURSIVE DecomposeOffice(_)
DecomposeOffice(s) ==
    IF s = <<>> THEN <<>>
    ELSE IF Head(s) \in OpenTags
         THEN DecomposeOffice(SkipElement(Tail(s), Head(s), 0))
    ELSE <<Head(s)>> \o DecomposeOffice(Tail(s))

\* lines 72-74: find_all lists the divs first; each one that is empty at its
\* turn is decomposed (a div left empty by that is not looked at again)
DecomposeEmptyDivs(s) == Replace(s, <<"<div>", "</div>">>, <<>>)

\* lines 65-76: parse, clean the tree, serialise
TreePass(s) == DecomposeEmptyDivs(DecomposeOffice(s))

clean_html(h) ==
    IF CheckFails(h) THEN Raised("ValueError")
    ELSE Str(TreePass(Substitutions(h.val)))

----------------------------------------------------------------------------
(* base64, as get_payload(decode=True) and base64.b64encode compute it *)

B64Alphabet ==
    <<"A", "B", "C", "D", "E", "F", "G", "H", "I", "J", "K", "L", "M",
      "N", "O", "P", "Q", "R", "S", "T", "U", "V", "W", "X", "Y", "Z",
      "a", "b", "c", "d", "e", "f", "g", "h", "i", "j", "k", "l", "m",
      "n", "o", "p", "q", "r", "s", "t", "u", "v", "w", "x", "y", "z",
      "0", "1", "2", "3", "4", "5", "6", "7", "8", "9", "+", "/">>

IsB64Char(c) == \E i \in 1..Len(B64Alphabet) : B64Alphabet[i] = c
Sextet(c) == (CHOOSE i \in 1..Len(B64Alphabet) : B64Alphabet[i] = c) - 1
B64Char(n) == B64Alphabet[n + 1]

RECURSIVE SextetsToBytes(_)
SextetsToBytes(x) ==
    IF Len(x) >= 4
    THEN LET n == ((x[1] * 64 + x[2]) * 64 + x[3]) * 64 + x[4]
         IN  <<n \div 65536, (n \div 256) % 256, n % 256>>
                 \o SextetsToBytes(SubSeq(x, 5, Len(x)))
    ELSE IF Len(x) = 3
    THEN LET n == (x[1] * 64 + x[2]) * 64 + x[3]
         IN  <<n \div 1024, (n \div 4) % 256>>
    ELSE IF Len(x) = 2
    THEN <<(x[1] * 64 + x[2]) \div 16>>
    ELSE <<>>

\* line breaks and padding carry no bits
B64Decode(raw) ==
    LET body == SelectSeq(raw, IsB64Char)
    IN  SextetsToBytes([i \in 1..Len(body) |-> Sextet(body[i])])

RECURSIVE B64Encode(_)
B64Encode(b) ==
    IF Len(b) >= 3
    THEN LET n == (b[1] * 256 + b[2]) * 256 + b[3]
         IN  <<B64Char(n \div 262144), B64Char((n \div 4096) % 64),
               B64Char((n \div 64) % 64), B64Char(n % 64)>>
                 \o B64Encode(SubSeq(b, 4, Len(b)))
    ELSE IF Len(b) = 2
    THEN LET n == (b[1] * 256 + b[2]) * 4
         IN  <<B64Char(n \div 4096), B64Char((n \div 64) % 64),
               B64Char(n % 64), "=">>
    ELSE IF Len(b) = 1
    THEN LET n == b[1] * 16
         IN  <<B64Char(n \div 64), B64Char(n % 64), "=", "=">>
    ELSE <<>>

----------------------------------------------------------------------------
(* _extract_html *)

StartsWith(s, pre) == Len(s) >= Len(pre) /\ SubSeq(s, 1, Len(pre)) = pre

\* str.lower() on the spellings of a transfer encoding
LowerLexeme(x) ==
    IF x \in {"BASE", "Base"} THEN "base"
    ELSE IF x = "BIT" THEN "bit"
    ELSE x
Lower(s) == [i \in 1..Len(s) |-> LowerLexeme(s[i])]

TextHtml == <<"text", "/", "html">>
OctetStream == <<"application", "/", "octet-stream">>
Base64 == <<"base", "64">>

\* line 40: content_location.split('/')[-1]
RECURSIVE LastSegment(_)
LastSegment(loc) ==
    IF \E i \in 1..Len(loc) : loc[i] = "/"
    THEN LastSegment(Tail(loc))
    ELSE loc

\* lines 42-43
DataUri(part) ==
    <<"data:">> \o part.content_type \o <<";base64,">>
        \o B64Encode(B64Decode(part.payload))

\* line 37: content_transfer_encoding.lower() == 'base64'
IsBase64(part) == Lower(part.cte) = Base64

\* lines 35-37
IsInlineable(part) ==
    /\ \/ StartsWith(part.content_type, <<"image", "/">>)
       \/ part.content_type = OctetStream
    /\ IsBase64(part)

\* images[filename] = value: a dict keeps a key's first position
DictSetKeepFirst(d, k, v) ==
    IF \E i \in 1..Len(d) : d[i].key = k
    THEN d
    ELSE Append(d, [key |-> k, value |-> v])
DictSet(d, k, v) ==
    IF \E i \in 1..Len(d) : d[i].key = k
    THEN [i \in 1..Len(d) |-> IF d[i].key = k THEN [key |-> k, value |-> v] ELSE d[i]]
    ELSE Append(d, [key |-> k, value |-> v])

\* lines 28-43, one pass of the loop body over a part; st holds the locals
\* html_content and images, and err once an exception has left the loop
WalkPart(st, part) ==
    IF part.content_type = TextHtml
    THEN IF ~part.utf8
         THEN [st EXCEPT !.err = "UnicodeDecodeError"]
         ELSE LET r == clean_html(Str(part.payload))
              IN  IF r.kind = "raise"
                  THEN [st EXCEPT !.err = r.val[1]]
                  ELSE [st EXCEPT !.html = r]
    ELSE IF IsInlineable(part) /\ part.content_location # <<>>
    THEN [st EXCEPT !.images =
             DictSet(@, LastSegment(part.content_location), DataUri(part))]
    ELSE st

SrcQ == <<"s", "r", "c", "=", "\"">>
DataImageSrcQ == <<"d", "a", "t", "a", "-", "i", "m", "a", "g", "e", "-">> \o SrcQ
Quote == <<"\"">>

\* lines 49-50
InlineOne(html, item) ==
    LET h1 == Replace(html, SrcQ \o item.key \o Quote, SrcQ \o item.value \o Quote)
    IN  Replace(h1, DataImageSrcQ \o item.key \o Quote,
                    DataImageSrcQ \o item.value \o Quote)

RECURSIVE WalkAll(_, _)
WalkAll(st, parts) ==
    IF parts = <<>> \/ st.err # "" THEN st
    ELSE WalkAll(WalkPart(st, Head(parts)), Tail(parts))

RECURSIVE InlineAll(_, _)
InlineAll(html, items) ==
    IF items = <<>> THEN html
    ELSE InlineAll(InlineOne(html, Head(items)), Tail(items))

\* lines 19-52, as a function of the parts the file holds
extract_html(parts) ==
    LET st == WalkAll([html |-> None, images |-> <<>>, err |-> ""], parts)
    IN  IF st.err # "" THEN Raised(st.err)
        ELSE IF Truthy(st.html) /\ st.images # <<>>
        THEN Str(InlineAll(st.html.val, st.images))
        ELSE st.html

----------------------------------------------------------------------------
(* _clean_html, statement by statement *)

QPAlphabet == {"=", "3", "2", "D", "\n", " "}

MarkupDocs ==
    { <<"<div>", "</div>">>,
      <<"<div>", "<div>", "</div>", "</div>">>,
      <<"<div>", " ", "</div>">>,
      <<"<xml>", "D", "</xml>", "3">>,
      <<"<div>", "<o:p>", "</o:p>", "</div>">>,
      <<"<p>", "=", "3", "D", "<o:p>", "2", "</p>">> }

CleanInputs ==
    {None} \cup {Str(s) : s \in SeqsUpTo(QPAlphabet, MaxLen) \cup MarkupDocs}

ParseIdle ==
    /\ archive = <<>>
    /\ p_i = 0
    /\ html_content = None
    /\ images = <<>>
    /\ p_j = 0
    /\ p_pc = "idle"

JobsIdle ==
    /\ inputs = <<>>
    /\ outs = <<>>
    /\ jobs = <<>>
    /\ pdf = <<>>
    /\ tmp = <<>>
    /\ m_pc = "idle"
    /\ summary = FALSE
    /\ exit_status = NotExited
    /\ run = 0

CleanIdle ==
    /\ c_in = None
    /\ c_text = <<>>
    /\ c_pc = "idle"

InitClean ==
    /\ c_in \in CleanInputs
    /\ c_text = c_in.val
    /\ c_pc = "check"
    /\ ParseIdle
    /\ JobsIdle

\* lines 56-57
CleanCheck ==
    /\ c_pc = "check"
    /\ c_pc' = IF CheckFails(c_in) THEN "raised" ELSE "sub3D"
    /\ UNCHANGED <<c_in, c_text>>
    /\ UNCHANGED <<parseVars, jobVars>>

\* line 60
CleanSub3D ==
    /\ c_pc = "sub3D"
    /\ c_text' = Sub3D(c_text)
    /\ c_pc' = "sub2D"
    /\ UNCHANGED c_in
    /\ UNCHANGED <<parseVars, jobVars>>

\* line 61
CleanSub2D ==
    /\ c_pc = "sub2D"
    /\ c_text' = Sub2D(c_text)
    /\ c_pc' = "subSoft"
    /\ UNCHANGED c_in
    /\ UNCHANGED <<parseVars, jobVars>>

\* line 62
CleanSubSoft ==
    /\ c_pc = "subSoft"
    /\ c_text' = SubSoft(c_text)
    /\ c_pc' = "tree"
    /\ UNCHANGED c_in
    /\ UNCHANGED <<parseVars, jobVars>>

\* lines 65-76
CleanTree ==
    /\ c_pc = "tree"
    /\ c_text' = TreePass(c_text)
    /\ c_pc' = "returned"
    /\ UNCHANGED c_in
    /\ UNCHANGED <<parseVars, jobVars>>

NextClean ==
    \/ CleanCheck
    \/ CleanSub3D
    \/ CleanSub2D
    \/ CleanSubSoft
    \/ CleanTree

SpecClean == InitClean /\ [][NextClean]_vars

----------------------------------------------------------------------------
(* _extract_html, part by part *)

Part(ct, loc, cte, body) ==
    [content_type |-> ct, content_location |-> loc, cte |-> cte,
     payload |-> body, utf8 |-> TRUE]

KeyK == <<"k">>
KeyL == <<"l">>

\* src="k" data-image-src="l" src="o"
DocRefs ==
    SrcQ \o KeyK \o Quote \o <<" ">> \o DataImageSrcQ \o KeyL \o Quote
        \o <<" ">> \o SrcQ \o <<"o">> \o Quote
\* src="k"src="k"
DocTwice == SrcQ \o KeyK \o Quote \o SrcQ \o KeyK \o Quote
\* src="k"k"
DocOdd == SrcQ \o KeyK \o Quote \o KeyK \o Quote

QuotedPrintable == <<"quoted-printable">>

RootPart == Part(<<"multipart", "/", "related">>, <<>>, <<>>, <<>>)
HtmlEmpty == Part(TextHtml, <<>>, QuotedPrintable, <<>>)
HtmlHello == Part(TextHtml, <<>>, QuotedPrintable,
                  <<"H", "=", "3", "D", "<div>", "</div>">>)
HtmlRefs == Part(TextHtml, <<"http:", "/", "/", "x", "/">>, QuotedPrintable, DocRefs)
HtmlTwice == Part(TextHtml, <<>>, QuotedPrintable, DocTwice)
HtmlOdd == Part(TextHtml, <<>>, QuotedPrintable, DocOdd)
HtmlNotUtf8 == [Part(TextHtml, <<>>, <<"8", "bit">>, <<"W">>) EXCEPT !.utf8 = FALSE]
ImgK == Part(<<"image", "/", "png">>, <<"http:", "/", "/", "x", "/", "k">>,
             Base64, <<"Q", "U", "\n", "J", "D">>)
ImgKAgain == Part(<<"image", "/", "gif">>, KeyK, <<"BASE", "64">>,
                  <<"s", "r", "c", "=">>)
OctetL == Part(OctetStream, <<"x", "/", "l">>, <<"Base", "64">>,
               <<"Q", "Q", "=", "=">>)
ImgNoLocation == Part(<<"image", "/", "png">>, <<>>, Base64, <<"Q", "U", "J", "D">>)
Img7Bit == Part(<<"image", "/", "png">>, KeyK, <<"7", "bit">>, <<"Q", "U", "J", "D">>)
ImgL == Part(<<"image", "/", "png">>, <<"x", "/", "l">>, Base64, <<"Q", "U", "I", "=">>)
CssL == Part(<<"text", "/", "css">>, <<"x", "/", "l">>, Base64, <<"Q", "U", "J", "D">>)

Parts ==
    { RootPart, HtmlEmpty, HtmlHello, HtmlRefs, HtmlTwice, HtmlOdd, HtmlNotUtf8,
      ImgK, ImgKAgain, ImgL, OctetL, ImgNoLocation, Img7Bit, CssL }

Archives == UNION {[1..n -> Parts] : n \in 1..MaxParts}

InitParse ==
    /\ archive \in Archives
    /\ p_i = 0
    /\ html_content = None
    /\ images = <<>>
    /\ p_j = 0
    /\ p_pc = "walk"
    /\ CleanIdle
    /\ JobsIdle

\* lines 27-43: the loop body on the next part
WalkStep ==
    /\ p_pc = "walk"
    /\ p_i < Len(archive)
    /\ LET st == WalkPart([html |-> html_content, images |-> images, err |-> ""],
                          archive[p_i + 1])
       IN  /\ html_content' = st.html
           /\ images' = st.images
           /\ p_pc' = IF st.err # "" THEN "raised" ELSE "walk"
    /\ p_i' = p_i + 1
    /\ UNCHANGED <<archive, p_j>>
    /\ UNCHANGED <<cleanVars, jobVars>>

\* line 46, once the walk is over
WalkEnd ==
    /\ p_pc = "walk"
    /\ p_i = Len(archive)
    /\ p_pc' = IF Truthy(html_content) /\ images # <<>> THEN "inline" ELSE "returned"
    /\ UNCHANGED <<archive, p_i, html_content, images, p_j>>
    /\ UNCHANGED <<cleanVars, jobVars>>

\* lines 47-50: the loop body on the next (filename, data_uri) pair
InlineStep ==
    /\ p_pc = "inline"
    /\ p_j < Len(images)
    /\ html_content' = Str(InlineOne(html_content.val, images[p_j + 1]))
    /\ p_j' = p_j + 1
    /\ UNCHANGED <<archive, p_i, images, p_pc>>
    /\ UNCHANGED <<cleanVars, jobVars>>

\* line 52
InlineEnd ==
    /\ p_pc = "inline"
    /\ p_j = Len(images)
    /\ p_pc' = "returned"
    /\ UNCHANGED <<archive, p_i, html_content, images, p_j>>
    /\ UNCHANGED <<cleanVars, jobVars>>

NextParse ==
    \/ WalkStep
    \/ WalkEnd
    \/ InlineStep
    \/ InlineEnd

SpecParse == InitParse /\ [][NextParse]_vars

----------------------------------------------------------------------------
(* Files.  A .pdf is absent, unreadable as a PDF, or a PDF that records the  *)
(* HTML it was printed from; a .html is absent (None) or holds a text.       *)

Stems == {"x", "y"}

Absent == [kind |-> "absent", of |-> <<>>]
Corrupt == [kind |-> "corrupt", of |-> <<>>]
PdfOf(html) == [kind |-> "pdf", of |-> html]
OldPdf == PdfOf(<<"old">>)
StaleHtml == Str(<<"stale">>)

\* output_path.exists()
Exists(f) == f.kind # "absent"

\* lines 171-182: PdfReader opens the file and counts its pages
validate_pdf_always_false(f) == FALSE
validate_pdf(f) == f.kind = "pdf"

\* line 153
ShouldSkip(f) == Exists(f) /\ validate_pdf(f)

\* line 207: output_path / input_file.with_suffix('.pdf').name
OutputFile(file) == file.stem

\* a file that open() or the utf-8 decoder rejects is not readable
InputFile(dir, stem, suffix, readable, parts) ==
    [dir |-> dir, stem |-> stem, suffix |-> suffix, readable |-> readable,
     parts |-> parts]

HtmlOf(j) == Part(TextHtml, <<>>, QuotedPrintable,
                  <<"doc", ToString(j), " ">> \o SrcQ \o KeyK \o Quote)
GoodArchive(j) == <<RootPart, HtmlOf(j), ImgK>>
NoHtmlArchive == <<RootPart, ImgK>>
RaisingArchive == <<RootPart, HtmlEmpty, HtmlHello>>
JobArchives(j) == {GoodArchive(j), NoHtmlArchive, RaisingArchive}

NewJob ==
    [pc |-> "start", html |-> None, loaded |-> None, ret |-> FALSE,
     result |-> "pending", skipped |-> FALSE, parsed |-> FALSE,
     called |-> FALSE, caught |-> FALSE]

\* lines 167-169: except Exception ... return False
ExceptionEscapes(job) == [job EXCEPT !.pc = "escaped"]
OnException(job) ==
    [job EXCEPT !.pc = "done", !.result = "False", !.caught = TRUE]

Return(job, value) ==
    [job EXCEPT !.pc = "done", !.result = IF value THEN "True" ELSE "False"]

----------------------------------------------------------------------------
(* convert_mhtml_to_pdf and html_to_pdf, for job j *)

Running == m_pc = "running"

\* lines 153-155
JobCheck(j) ==
    /\ Running
    /\ jobs[j].pc = "start"
    /\ jobs' = [jobs EXCEPT ![j] =
                   IF ShouldSkip(pdf[outs[j]])
                   THEN [Return(@, TRUE) EXCEPT !.skipped = TRUE]
                   ELSE [@ EXCEPT !.pc = "extract"]]
    /\ UNCHANGED <<inputs, outs, pdf, tmp, m_pc, summary, exit_status, run>>
    /\ UNCHANGED <<cleanVars, parseVars>>

\* line 159
JobExtract(j) ==
    /\ Running
    /\ jobs[j].pc = "extract"
    /\ LET r == extract_html(inputs[j].parts)
       IN  jobs' = [jobs EXCEPT ![j] =
                       IF ~inputs[j].readable \/ r.kind = "raise"
                       THEN OnException([@ EXCEPT !.parsed = TRUE])
                       ELSE [@ EXCEPT !.pc = "write", !.html = r, !.parsed = TRUE]]
    /\ UNCHANGED <<inputs, outs, pdf, tmp, m_pc, summary, exit_status, run>>
    /\ UNCHANGED <<cleanVars, parseVars>>

\* lines 161, 121-125: html_to_pdf is entered; mkdir may fail, outside the
\* try; write_text refuses None before it opens the file, and may fail
JobWriteTmp(j) ==
    /\ Running
    /\ jobs[j].pc = "write"
    /\ \E outcome \in {"ok", "mkdir fails", "write fails"} :
          IF outcome = "mkdir fails"
          THEN /\ jobs' = [jobs EXCEPT ![j] = OnException([@ EXCEPT !.called = TRUE])]
               /\ tmp' = tmp
          ELSE IF outcome = "write fails" \/ jobs[j].html.kind = "None"
          THEN /\ jobs' = [jobs EXCEPT ![j] =
                              [@ EXCEPT !.pc = "finally", !.ret = FALSE,
                                        !.called = TRUE]]
               /\ tmp' = tmp
          ELSE /\ jobs' = [jobs EXCEPT ![j] =
                              [@ EXCEPT !.pc = "goto", !.called = TRUE]]
               /\ tmp' = [tmp EXCEPT ![outs[j]] = jobs[j].html]
    /\ UNCHANGED <<inputs, outs, pdf, m_pc, summary, exit_status, run>>
    /\ UNCHANGED <<cleanVars, parseVars>>

\* lines 127-134: the browser starts and loads the temporary file
JobGoto(j) ==
    /\ Running
    /\ jobs[j].pc = "goto"
    /\ \E ok \in BOOLEAN :
          jobs' = [jobs EXCEPT ![j] =
                      IF ok /\ tmp[outs[j]].kind = "str"
                      THEN [@ EXCEPT !.pc = "pdf", !.loaded = tmp[outs[j]]]
                      ELSE [@ EXCEPT !.pc = "finally", !.ret = FALSE]]
    /\ UNCHANGED <<inputs, outs, pdf, tmp, m_pc, summary, exit_status, run>>
    /\ UNCHANGED <<cleanVars, parseVars>>

\* lines 135-145: the page is printed to the output path
JobPdf(j) ==
    /\ Running
    /\ jobs[j].pc = "pdf"
    /\ \E ok \in BOOLEAN :
          /\ jobs' = [jobs EXCEPT ![j] = [@ EXCEPT !.pc = "finally", !.ret = ok]]
          /\ pdf' = IF ok THEN [pdf EXCEPT ![outs[j]] = PdfOf(jobs[j].loaded.val)]
                          ELSE pdf
    /\ UNCHANGED <<inputs, outs, tmp, m_pc, summary, exit_status, run>>
    /\ UNCHANGED <<cleanVars, parseVars>>

\* line 148, then lines 162-166 when there is nothing to remove
JobFinally(j) ==
    /\ Running
    /\ jobs[j].pc = "finally"
    /\ jobs' = [jobs EXCEPT ![j] =
                   IF tmp[outs[j]].kind = "str"
                   THEN [@ EXCEPT !.pc = "unlink"]
                   ELSE Return(@, jobs[j].ret)]
    /\ UNCHANGED <<inputs, outs, pdf, tmp, m_pc, summary, exit_status, run>>
    /\ UNCHANGED <<cleanVars, parseVars>>

\* line 149, then lines 162-166; unlink raises when the file is gone
JobUnlink(j) ==
    /\ Running
    /\ jobs[j].pc = "unlink"
    /\ IF tmp[outs[j]].kind = "str"
       THEN /\ tmp' = [tmp EXCEPT ![outs[j]] = None]
            /\ jobs' = [jobs EXCEPT ![j] = Return(@, jobs[j].ret)]
       ELSE /\ tmp' = tmp
            /\ jobs' = [jobs EXCEPT ![j] = OnException(@)]
    /\ UNCHANGED <<inputs, outs, pdf, m_pc, summary, exit_status, run>>
    /\ UNCHANGED <<cleanVars, parseVars>>

JobStep(j) ==
    \/ JobCheck(j)
    \/ JobExtract(j)
    \/ JobWriteTmp(j)
    \/ JobGoto(j)
    \/ JobPdf(j)
    \/ JobFinally(j)
    \/ JobUnlink(j)

Ended(job) == job.pc \in {"done", "escaped"}

----------------------------------------------------------------------------
(* main on a directory: lines 198-216 *)

Jobs == 1..NumJobs

\* the files rglob finds: distinct paths, whose names may still agree
BatchInputs ==
    { f \in [Jobs -> [dir : {"d"}, stem : Stems, suffix : {".mhtml", ".mht"},
                      readable : BOOLEAN,
                      parts : UNION {JobArchives(j) : j \in Jobs}]] :
        /\ f[1].stem = "x"
        /\ \A j \in Jobs :
              /\ f[j].parts \in JobArchives(j)
              /\ ~f[j].readable => f[j].parts = NoHtmlArchive
              /\ f[j].suffix = (IF j = 1 THEN ".mhtml" ELSE ".mht") }

InitBatch ==
    /\ inputs \in BatchInputs
    /\ outs = <<>>
    /\ jobs = <<>>
    /\ pdf \in {[s \in Stems |-> IF s = "x" THEN f ELSE Absent] :
                   f \in {Absent, OldPdf, Corrupt}}
    /\ tmp \in {[s \in Stems |-> IF s = "x" THEN t ELSE None] :
                   t \in {None, StaleHtml}}
    /\ m_pc = "collect"
    /\ summary = FALSE
    /\ exit_status = NotExited
    /\ run = 1
    /\ CleanIdle
    /\ ParseIdle

\* lines 198-208
MainCollect ==
    /\ m_pc = "collect"
    /\ outs' = [j \in Jobs |-> OutputFile(inputs[j])]
    /\ jobs' = [j \in Jobs |-> NewJob]
    /\ m_pc' = "running"
    /\ UNCHANGED <<inputs, pdf, tmp, summary, exit_status, run>>
    /\ UNCHANGED <<cleanVars, parseVars>>

\* lines 211-216 and the end of the process: pool.map hands back the list of
\* results, or raises what a job let escape; main itself returns normally
MainResults ==
    /\ m_pc = "running"
    /\ Len(jobs) = NumJobs
    /\ \A j \in Jobs : Ended(jobs[j])
    /\ IF \E j \in Jobs : jobs[j].pc = "escaped"
       THEN summary' = summary /\ exit_status' = 1
       ELSE /\ summary' = ~(\A j \in Jobs : jobs[j].result = "True")
            /\ exit_status' = 0
    /\ m_pc' = "exited"
    /\ UNCHANGED <<inputs, outs, jobs, pdf, tmp, run>>
    /\ UNCHANGED <<cleanVars, parseVars>>

BatchJob == \E j \in Jobs : JobStep(j)

NextBatch ==
    \/ MainCollect
    \/ BatchJob
    \/ MainResults

SpecBatch == InitBatch /\ [][NextBatch]_vars

----------------------------------------------------------------------------
(* main on one file: lines 217-221, started any number of times *)

Suffixes == {".mhtml", ".mht", ".doc"}

InitSingle ==
    /\ \E suffix \in {".mhtml", ".txt"} : \E parts \in JobArchives(1) :
          \E readable \in BOOLEAN :
              /\ ~readable => parts = NoHtmlArchive
              /\ inputs = <<InputFile("d", "x", suffix, readable, parts)>>
    /\ outs = <<>>
    /\ jobs = <<>>
    /\ pdf \in {[s \in Stems |-> IF s = "x" THEN f ELSE Absent] :
                   f \in {Absent, OldPdf, Corrupt}}
    /\ tmp \in {[s \in Stems |-> IF s = "x" THEN t ELSE None] :
                   t \in {None, StaleHtml}}
    /\ m_pc = "single"
    /\ summary = FALSE
    /\ exit_status = NotExited
    /\ run = 1
    /\ CleanIdle
    /\ ParseIdle

\* lines 219-221: the call; the output path is the one given
MainSingle ==
    /\ m_pc = "single"
    /\ IF inputs[1].suffix \notin Suffixes
       THEN /\ m_pc' = "exited"
            /\ exit_status' = 1
            /\ UNCHANGED <<outs, jobs>>
       ELSE /\ m_pc' = "running"
            /\ outs' = <<OutputFile(inputs[1])>>
            /\ jobs' = <<NewJob>>
            /\ UNCHANGED exit_status
    /\ UNCHANGED <<inputs, pdf, tmp, summary, run>>
    /\ UNCHANGED <<cleanVars, parseVars>>

\* line 221 returns and the process ends; the result is not looked at
MainReturn ==
    /\ m_pc = "running"
    /\ Len(jobs) = 1
    /\ Ended(jobs[1])
    /\ exit_status' = IF jobs[1].pc = "escaped" THEN 1 ELSE 0
    /\ m_pc' = "exited"
    /\ UNCHANGED <<inputs, outs, jobs, pdf, tmp, summary, run>>
    /\ UNCHANGED <<cleanVars, parseVars>>

\* the program is started again with the same arguments
Rerun ==
    /\ m_pc = "exited"
    /\ run < MaxRuns
    /\ run' = run + 1
    /\ m_pc' = "single"
    /\ exit_status' = NotExited
    /\ UNCHANGED <<inputs, outs, jobs, pdf, tmp, summary>>
    /\ UNCHANGED <<cleanVars, parseVars>>

SingleJob == JobStep(1)

NextSingle ==
    \/ MainSingle
    \/ SingleJob
    \/ MainReturn
    \/ Rerun

SpecSingle == InitSingle /\ [][NextSingle]_vars

----------------------------------------------------------------------------
(* Claims about _clean_html *)

Escapes == {Esc3D, Esc2D, SoftBreak}

OccursAt(s, e, i) == i + Len(e) - 1 <= Len(s) /\ SubSeq(s, i, i + Len(e) - 1) = e

NoEscape(s) == \A e \in Escapes : ~Contains(s, e)

\* Every "=" of s begins an escape, and no escape is directly followed by a
\* character that could complete a new escape once the first is rewritten.
IsolatedEscapes(s) ==
    /\ \A i \in 1..Len(s) : s[i] = "=" => \E e \in Escapes : OccursAt(s, e, i)
    /\ \A i \in 1..Len(s) : \A e \in Escapes :
          OccursAt(s, e, i) /\ i + Len(e) <= Len(s)
              => s[i + Len(e)] \notin {"3", "2", "\n"}

\* C3 as stated: for every non-empty input, the three substitutions applied to
\* their own output change nothing, and that output holds no "=3D", "=2D" or
\* "=" followed by a newline.
C3_Idempotent ==
    c_pc = "tree" => Substitutions(c_text) = c_text /\ NoEscape(c_text)

\* C3 amended: the same, for every non-empty input in which every "=" begins
\* one of the three patterns and no occurrence of a pattern is directly
\* followed by "3", "2" or a newline.
C3_IdempotentIsolated ==
    c_pc = "tree" /\ IsolatedEscapes(c_in.val)
        => Substitutions(c_text) = c_text /\ NoEscape(c_text)

C3_Witness ==
    /\ c_pc = "tree"
    /\ IsolatedEscapes(c_in.val)
    /\ Contains(c_in.val, Esc3D)
    /\ Contains(c_in.val, SoftBreak)
    /\ c_text = <<"=">>

Blank(h) == ~Truthy(h) \/ \A i \in 1..Len(h.val) : h.val[i] \in {" ", "\n"}

\* C4 as stated: an input that is empty, absent or only whitespace raises
\* ValueError and never gets past the check.
C4_BlankRaises == Blank(c_in) => c_pc \in {"check", "raised"}

\* C4 amended: an input that is empty or absent raises ValueError and never
\* gets past the check; every other input, whitespace-only ones included,
\* passes the check and is never rejected.
C4_EmptyRaises ==
    /\ ~Truthy(c_in) => c_pc \in {"check", "raised"}
    /\ Truthy(c_in) => c_pc # "raised"

C4_Witness == c_pc = "raised" /\ c_in = Str(<<>>)

----------------------------------------------------------------------------
(* Claims about _extract_html *)

HtmlIndices(a) == {i \in 1..Len(a) : a[i].content_type = TextHtml}
LastHtml(a) == CHOOSE i \in HtmlIndices(a) : \A j \in HtmlIndices(a) : j <= i

\* the archive without the text/html parts that come before its last one
RECURSIVE KeepFrom(_, _, _)
KeepFrom(a, i, last) ==
    IF i > Len(a) THEN <<>>
    ELSE IF a[i].content_type = TextHtml /\ i < last
         THEN KeepFrom(a, i + 1, last)
         ELSE <<a[i]>> \o KeepFrom(a, i + 1, last)
WithoutEarlierHtml(a) == KeepFrom(a, 1, LastHtml(a))

AnyError == [kind |-> "raise", val |-> <<>>]

ParseOutcome ==
    IF p_pc = "raised" THEN AnyError ELSE html_content

OutcomeOf(r) == IF r.kind = "raise" THEN AnyError ELSE r

\* C5: with two or more text/html parts, the parser ends as it would on the
\* same archive without the earlier text/html parts: same result, and an
\* error only if that archive gives one too.
C5_LastHtmlWins ==
    p_pc \in {"returned", "raised"} /\ Cardinality(HtmlIndices(archive)) >= 2
        => ParseOutcome = OutcomeOf(extract_html(WithoutEarlierHtml(archive)))

EndsWith(s, suf) ==
    Len(s) >= Len(suf) /\ SubSeq(s, Len(s) - Len(suf) + 1, Len(s)) = suf

ImageWithLocation(part) ==
    /\ part.content_type[1] = "image"
    /\ Lower(part.cte) = Base64
    /\ part.content_location # <<>>

OneHtmlAndImages(a) ==
    /\ Cardinality(HtmlIndices(a)) = 1
    /\ \A i \in 1..Len(a) :
          \/ a[i].content_type = TextHtml
          \/ a[i].content_type[1] = "multipart"
          \/ ImageWithLocation(a[i])

NoKeyLeft ==
    \A j \in 1..Len(images) :
        /\ ~Contains(html_content.val, SrcQ \o images[j].key \o Quote)
        /\ Head(images[j].value) = "data:"

\* C6 as stated: for an archive of one HTML part and base64 image parts with
\* a Content-Location (and the multipart container that holds them), the returned HTML holds src="<key>" for no key of the
\* map, and every value put in its place begins with data:.
C6_NoKeyLeft ==
    p_pc = "returned" /\ OneHtmlAndImages(archive) => NoKeyLeft

\* C6 amended: the same, provided no data URI of the map ends in the four
\* characters src= (a base64 text whose last, padded group reads src=).
C6_NoKeyLeftUnlessSrcTail ==
    /\ p_pc = "returned"
    /\ OneHtmlAndImages(archive)
    /\ \A j \in 1..Len(images) : ~EndsWith(images[j].value, <<"s", "r", "c", "=">>)
    => NoKeyLeft

C6_Witness ==
    /\ p_pc = "returned"
    /\ archive = <<HtmlRefs, ImgK, ImgL>>
    /\ p_j = 2
    /\ html_content.val =
          SrcQ \o <<"data:", "image", "/", "png", ";base64,", "Q", "U", "J", "D">>
              \o Quote \o <<" ">>
          \o DataImageSrcQ
              \o <<"data:", "image", "/", "png", ";base64,", "Q", "U", "I", "=">>
              \o Quote \o <<" ">>
          \o SrcQ \o <<"o">> \o Quote

Max(S) == CHOOSE x \in S : \A y \in S : y <= x

\* the text after the last "/" of a Content-Location
KeyOf(loc) ==
    LET slashes == {i \in 1..Len(loc) : loc[i] = "/"}
    IN  IF slashes = {} THEN loc ELSE SubSeq(loc, Max(slashes) + 1, Len(loc))

NotLineBreak(c) == c # "\n"

\* data:<content_type>;base64,<payload>, the payload on one line
ValueOf(part) ==
    <<"data:">> \o part.content_type \o <<";base64,">>
        \o SelectSeq(part.payload, NotLineBreak)

Storable(part) ==
    /\ \/ (Len(part.content_type) >= 2 /\ part.content_type[1] = "image"
              /\ part.content_type[2] = "/")
       \/ part.content_type = <<"application", "/", "octet-stream">>
    /\ part.cte \in {<<"base", "64">>, <<"BASE", "64">>, <<"Base", "64">>}
    /\ part.content_location # <<>>

\* C10: after any number of parts walked, the map has an entry exactly for
\* the keys of the storable parts walked (image/* or application/octet-stream,
\* base64 in any case, Content-Location non-empty); a key is the text after
\* the last "/", kept once, with the value of the last part that gives it;
\* and only a text/html part can raise.
C10_ResourceMap ==
    /\ \A j1, j2 \in 1..Len(images) : images[j1].key = images[j2].key => j1 = j2
    /\ \A j \in 1..Len(images) :
          \E i \in 1..p_i :
              /\ Storable(archive[i])
              /\ KeyOf(archive[i].content_location) = images[j].key
              /\ ValueOf(archive[i]) = images[j].value
              /\ \A i2 \in (i + 1)..p_i :
                    ~(Storable(archive[i2])
                        /\ KeyOf(archive[i2].content_location) = images[j].key)
    /\ \A i \in 1..p_i :
          Storable(archive[i]) /\ ~(p_pc = "raised" /\ i = p_i)
              => \E j \in 1..Len(images) :
                     images[j].key = KeyOf(archive[i].content_location)
    /\ p_pc = "raised" => archive[p_i].content_type = TextHtml

C10_Witness ==
    /\ p_pc = "returned"
    /\ archive = <<ImgK, OctetL, ImgKAgain>>
    /\ images = << [key |-> KeyK,
                    value |-> <<"data:", "image", "/", "gif", ";base64,",
                                "s", "r", "c", "=">>],
                   [key |-> KeyL,
                    value |-> <<"data:", "application", "/", "octet-stream",
                                ";base64,", "Q", "Q", "=", "=">>] >>

----------------------------------------------------------------------------
(* Claims about convert_mhtml_to_pdf, html_to_pdf and main *)

NoHtmlPart(parts) == HtmlIndices(parts) = {}

\* C1: a job whose archive has no text/html part never enters html_to_pdf
\* (so it touches no temporary file and no PDF), and ends with False.
C1_NoRenderWithoutHtml ==
    \A j \in DOMAIN jobs :
        inputs[j].readable /\ NoHtmlPart(inputs[j].parts)
            => /\ ~jobs[j].called
               /\ jobs[j].pc = "done" /\ ~jobs[j].skipped => jobs[j].result = "False"

\* C2: a call that finds a readable PDF at its output path returns True at
\* once, without parsing and without entering html_to_pdf, and leaves the
\* files as they are; and a readable PDF, once there, is never rewritten by
\* this or any later run.
C2_SkipWhenValid ==
    [][ /\ \A j \in DOMAIN jobs :
              /\ jobs[j].pc = "start"
              /\ pdf[outs[j]].kind = "pdf"
              /\ jobs' # jobs
              => /\ jobs'[j].pc = "done"
                 /\ jobs'[j].result = "True"
                 /\ ~jobs'[j].parsed
                 /\ ~jobs'[j].called
                 /\ pdf' = pdf
                 /\ tmp' = tmp
        /\ \A s \in Stems : pdf[s].kind = "pdf" => pdf'[s] = pdf[s]
      ]_vars

C2_Witness ==
    /\ run = 2
    /\ m_pc = "exited"
    /\ Len(jobs) = 1
    /\ jobs[1].skipped
    /\ jobs[1].result = "True"
    /\ pdf["x"].kind = "pdf"
    /\ pdf["x"] # OldPdf

\* C7: when a job of the batch returned False, the process ends with a
\* non-zero exit status.
C7_FailureExitsNonZero ==
    m_pc = "exited" /\ (\E j \in DOMAIN jobs : jobs[j].result = "False")
        => exit_status # 0

C9_LoadsOwnHtml ==
    \A j \in DOMAIN jobs :
        jobs[j].loaded.kind = "str" => jobs[j].loaded = jobs[j].html

====
